---- MODULE Spec2Model ----
(***************************************************************************)
(* Model of examples/webhook-receiver.py: the Flask application that       *)
(* receives LLMProxy usage reports on POST /llm-usage, appends each one as *)
(* a JSON line to usage_log.jsonl and answers GET /health.                 *)
(*                                                                         *)
(* Texts (request bodies, the log file) are sequences of lexical tokens.   *)
(* Every request carries Content-Type: application/json, as the LLMProxy   *)
(* reporter sends it, so request.json always parses the body.              *)
(***************************************************************************)
EXTENDS Integers, Sequences, FiniteSets, TLC

(***************************************************************************)
(* Bounds                                                                  *)
(***************************************************************************)
\* number of usage requests a run issues
MaxReq == 2
\* number of events of the environment in a run: a write(2) call that returns
\* a short count, the medium becoming unavailable or available again
MaxEnvEvents == 1

Req == 1..MaxReq

(***************************************************************************)
(* JSON texts                                                              *)
(***************************************************************************)
NL == "\n"
WS == " "
\* the string "\ud800": a lone surrogate, grammatical JSON (RFC 8259 sec. 7)
SURR == "\"\\ud800\""
\* the constant Infinity: no JSON, but Python writes and reads it (as NaN)
INF == "Infinity"

StrTokens == {"\"a\"", SURR}

\* The values json.loads builds: t is the Python type, s a scalar's content,
\* kids a list's elements or a dict's items (in insertion order).
Val(t, s, kids) == [t |-> t, s |-> s, kids |-> kids]
NoVal == Val("none", "", <<>>)

\* one parse result: ok, the value, and the index of the next unread token
Res(ok, val, next) == [ok |-> ok, val |-> val, next |-> next]
Bad == Res(FALSE, NoVal, 0)

RECURSIVE SkipWS(_, _)
SkipWS(toks, i) ==
    IF i <= Len(toks) /\ toks[i] = WS THEN SkipWS(toks, i + 1) ELSE i

\* dict[key] = val: a repeated key keeps its place and takes the new value
SetItem(items, key, val) ==
    IF \E k \in 1..Len(items) : items[k].s = key
    THEN [k \in 1..Len(items) |->
            IF items[k].s = key THEN Val("item", key, <<val>>) ELSE items[k]]
    ELSE Append(items, Val("item", key, <<val>>))

RECURSIVE ParseValue(_, _, _)
RECURSIVE ParseElems(_, _, _, _)
RECURSIVE ParseItems(_, _, _, _)

\* json.JSONDecoder.decode of one value starting at token i. lenient is
\* Python's parse_constant behaviour: Infinity (like NaN) is accepted.
ParseValue(toks, i0, lenient) ==
    LET i == SkipWS(toks, i0) IN
    IF i > Len(toks) THEN Bad
    ELSE LET tk == toks[i] IN
         IF tk = "1" THEN Res(TRUE, Val("int", "1", <<>>), i + 1)
         ELSE IF tk = INF THEN
            IF lenient THEN Res(TRUE, Val("float", "inf", <<>>), i + 1) ELSE Bad
         ELSE IF tk \in StrTokens THEN Res(TRUE, Val("str", tk, <<>>), i + 1)
         ELSE IF tk = "[" THEN
            LET j == SkipWS(toks, i + 1) IN
            IF j <= Len(toks) /\ toks[j] = "]"
            THEN Res(TRUE, Val("list", "", <<>>), j + 1)
            ELSE ParseElems(toks, i + 1, <<>>, lenient)
         ELSE IF tk = "{" THEN
            LET j == SkipWS(toks, i + 1) IN
            IF j <= Len(toks) /\ toks[j] = "}"
            THEN Res(TRUE, Val("dict", "", <<>>), j + 1)
            ELSE ParseItems(toks, i + 1, <<>>, lenient)
         ELSE Bad

\* the elements of an array, after "[" or ","
ParseElems(toks, i, acc, lenient) ==
    LET r == ParseValue(toks, i, lenient) IN
    IF ~r.ok THEN Bad
    ELSE LET j == SkipWS(toks, r.next)
             acc2 == Append(acc, r.val) IN
         IF j > Len(toks) THEN Bad
         ELSE IF toks[j] = "," THEN ParseElems(toks, j + 1, acc2, lenient)
         ELSE IF toks[j] = "]" THEN Res(TRUE, Val("list", "", acc2), j + 1)
         ELSE Bad

\* the members of an object, after "{" or ","
ParseItems(toks, i0, acc, lenient) ==
    LET i == SkipWS(toks, i0) IN
    IF i > Len(toks) \/ toks[i] \notin StrTokens THEN Bad
    ELSE LET c == SkipWS(toks, i + 1) IN
         IF c > Len(toks) \/ toks[c] # ":" THEN Bad
         ELSE LET r == ParseValue(toks, c + 1, lenient) IN
              IF ~r.ok THEN Bad
              ELSE LET j == SkipWS(toks, r.next)
                       acc2 == SetItem(acc, toks[i], r.val) IN
                   IF j > Len(toks) THEN Bad
                   ELSE IF toks[j] = "," THEN ParseItems(toks, j + 1, acc2, lenient)
                   ELSE IF toks[j] = "}" THEN Res(TRUE, Val("dict", "", acc2), j + 1)
                   ELSE Bad

\* a whole document: one value, then only white space
ParseDoc(toks, lenient) ==
    LET r == ParseValue(toks, 1, lenient) IN
    IF r.ok /\ SkipWS(toks, r.next) = Len(toks) + 1 THEN r ELSE Bad

\* the JSON grammar of RFC 8259: what "valid JSON" means
IsValidJSON(toks) == ParseDoc(toks, FALSE).ok
\* the value the payload denotes, read by the grammar
Denotes(toks) == ParseDoc(toks, FALSE).val

\* json.loads, as request.json calls it
Loads(toks) == ParseDoc(toks, TRUE)

RECURSIVE Dumps(_)
RECURSIVE DumpSeq(_, _)

\* json.dumps(data, ensure_ascii=False): separators are ", " and ": "
Dumps(v) ==
    IF v.t = "int" \/ v.t = "str" THEN <<v.s>>
    ELSE IF v.t = "float" THEN <<IF v.s = "inf" THEN INF ELSE v.s>>
    ELSE IF v.t = "list" THEN <<"[">> \o DumpSeq(v.kids, 1) \o <<"]">>
    ELSE IF v.t = "dict" THEN <<"{">> \o DumpSeq(v.kids, 1) \o <<"}">>
    ELSE IF v.t = "item" THEN <<v.s, ":", WS>> \o Dumps(v.kids[1])
    ELSE <<"null">>

DumpSeq(kids, k) ==
    IF k > Len(kids) THEN <<>>
    ELSE Dumps(kids[k])
            \o (IF k < Len(kids) THEN <<",", WS>> ELSE <<>>)
            \o DumpSeq(kids, k + 1)

\* str.encode('utf-8') with the strict error handler: lone surrogates raise
Encodable(toks) == \A k \in 1..Len(toks) : toks[k] # SURR


(***************************************************************************)
(* The inputs: request bodies                                              *)
(***************************************************************************)
Bodies ==
    { <<"1">>,                              \* a scalar
      <<"{", "\"a\"", ":", "1", "}">>,      \* an object
      <<SURR>>,                             \* a string python cannot encode
      <<INF>>,                              \* not JSON, but json.loads reads it
      <<"not-json">> }                      \* not JSON

(***************************************************************************)
(* Responses: jsonify(body), code                                          *)
(***************************************************************************)
Response(code, body) == [code |-> code, body |-> body]
NoResp == Response(0, {})

\* line 37
OkMsg == "received"
OkResponse == Response(200, {<<"status", "ok">>, <<"message", OkMsg>>})
\* mutant of ErrorResponse: the error body without its message
ErrorResponseBare(e) == Response(500, {<<"status", "error">>})

\* line 41: message is str(e)
ErrorResponse(e) == Response(500, {<<"status", "error">>, <<"message", e>>})
\* line 46
HealthResponse == Response(200, {<<"status", "healthy">>})

\* str(e) of the exceptions the handler's try block can raise
BadRequest == "400 Bad Request"
UnicodeEncodeError == "surrogates not allowed"
OSError == "OSError"

(***************************************************************************)
(* State                                                                   *)
(***************************************************************************)
VARIABLES
    serving,        \* app.run has started the server
    storeOK,        \* the medium of usage_log.jsonl accepts open and write
    store,          \* usage_log.jsonl: its tokens, each with the request that
                    \* wrote it (0: content from before this process)
    pc,             \* where each request's handler thread stands
    body,           \* request.data of each request
    data,           \* the handler's local: data
    buf,            \* the text f holds and has not yet passed to write(2)
    handles,        \* the requests whose f is open
    resp,           \* the response each request got
    health,         \* the last response of GET /health
    attempts,       \* history: open() calls each request made
    ackedBefore,    \* history: the requests answered 200 when this one arrived
    okAtStart,      \* history: storeOK when app.run was called
    envEvents       \* short counts and changes of the medium so far

vars == <<serving, storeOK, store, pc, body, data, buf, handles, resp, health,
          attempts, ackedBefore, okAtStart, envEvents>>

reqVars == <<pc, body, data, buf, handles, resp, attempts, ackedBefore>>

Tok(r, t) == [rid |-> r, tok |-> t]
Tagged(r, toks) == [k \in 1..Len(toks) |-> Tok(r, toks[k])]
\* the file's text
Text(s) == [k \in 1..Len(s) |-> s[k].tok]

\* the file the process finds when it starts: a line of an earlier run
PriorStore == Tagged(0, <<"1", NL>>)

Init ==
    /\ serving = FALSE
    /\ storeOK \in BOOLEAN
    /\ store = PriorStore
    /\ pc = [r \in Req |-> "idle"]
    /\ body = [r \in Req |-> <<>>]
    /\ data = [r \in Req |-> NoVal]
    /\ buf = [r \in Req |-> <<>>]
    /\ handles = {}
    /\ resp = [r \in Req |-> NoResp]
    /\ health = NoResp
    /\ attempts = [r \in Req |-> 0]
    /\ ackedBefore = [r \in Req |-> {}]
    /\ okAtStart = FALSE
    /\ envEvents = 0

(***************************************************************************)
(* Operations                                                              *)
(***************************************************************************)
\* __main__: app.run(...). Nothing here opens usage_log.jsonl.
Start ==
    /\ ~serving
    /\ serving' = TRUE
    /\ okAtStart' = storeOK
    /\ UNCHANGED <<storeOK, store, health, envEvents>>
    /\ UNCHANGED reqVars

\* the server dispatches a POST /llm-usage to a handler thread; requests are
\* numbered in their order of arrival
ReceiveUsage(r, b) ==
    /\ serving
    /\ pc[r] = "idle"
    /\ \A q \in Req : q < r => pc[q] # "idle"
    /\ pc' = [pc EXCEPT ![r] = "received"]
    /\ body' = [body EXCEPT ![r] = b]
    /\ ackedBefore' = [ackedBefore EXCEPT ![r] = {q \in Req : resp[q].code = 200}]
    /\ UNCHANGED <<serving, storeOK, store, data, buf, handles, resp, health,
                   attempts, okAtStart, envEvents>>

\* except Exception as e: return jsonify({"status": "error", ...}), 500
Except(r, e) ==
    /\ resp' = [resp EXCEPT ![r] = ErrorResponse(e)]
    /\ pc' = [pc EXCEPT ![r] = "done"]

\* data = request.json
ParseRequest(r) ==
    /\ pc[r] = "received"
    /\ LET p == Loads(body[r]) IN
       IF ~p.ok
       THEN /\ Except(r, BadRequest)
            /\ UNCHANGED data
       ELSE /\ data' = [data EXCEPT ![r] = p.val]
            /\ pc' = [pc EXCEPT ![r] = "parsed"]
            /\ UNCHANGED resp
    /\ UNCHANGED <<serving, storeOK, store, body, buf, handles, health,
                   attempts, ackedBefore, okAtStart, envEvents>>

\* print(json.dumps(data, indent=2, ensure_ascii=False)) raises on text that
\* sys.stdout cannot encode, unless stdout has a lenient error handler
PrintRaises(r, strictStdout) == strictStdout /\ ~Encodable(Dumps(data[r]))

\* the text of f.write: json.dumps(data, ensure_ascii=False) + '\n'
Line(v) == Dumps(v) \o <<NL>>

\* mutant of OpenAndWrite: a line the file already holds is not written again
OpenAndWriteOnce(r) ==
    /\ pc[r] = "parsed"
    /\ \E strictStdout \in BOOLEAN :
       IF PrintRaises(r, strictStdout)
       THEN /\ Except(r, UnicodeEncodeError)
            /\ UNCHANGED <<attempts, buf, handles>>
       ELSE /\ attempts' = [attempts EXCEPT ![r] = @ + 1]
            /\ IF ~storeOK
               THEN /\ Except(r, OSError)
                    /\ UNCHANGED <<buf, handles>>
               ELSE IF \E q \in Req :
                        /\ q # r
                        /\ Text(SelectSeq(store, LAMBDA e : e.rid = q))
                               = Line(data[r])
               THEN /\ pc' = [pc EXCEPT ![r] = "closed"]
                    /\ UNCHANGED <<buf, handles, resp>>
               ELSE /\ buf' = [buf EXCEPT ![r] = Line(data[r])]
                    /\ handles' = handles \cup {r}
                    /\ pc' = [pc EXCEPT ![r] = "flushing"]
                    /\ UNCHANGED resp
    /\ UNCHANGED <<serving, storeOK, store, body, data, health, ackedBefore,
                   okAtStart, envEvents>>

\* the print calls, then
\* with open('usage_log.jsonl', 'a', encoding='utf-8') as f: f.write(...)
\* f.write encodes the text and keeps it in f's buffer.
OpenAndWrite(r) ==
    /\ pc[r] = "parsed"
    /\ \E strictStdout \in BOOLEAN :
       IF PrintRaises(r, strictStdout)
       THEN /\ Except(r, UnicodeEncodeError)
            /\ UNCHANGED <<attempts, buf, handles>>
       ELSE /\ attempts' = [attempts EXCEPT ![r] = @ + 1]
            /\ IF ~storeOK
               THEN /\ Except(r, OSError)
                    /\ UNCHANGED <<buf, handles>>
               ELSE IF ~Encodable(Line(data[r]))
               THEN \* f.write raises; the with statement closes f, which
                    \* holds nothing
                    /\ Except(r, UnicodeEncodeError)
                    /\ UNCHANGED <<buf, handles>>
               ELSE /\ buf' = [buf EXCEPT ![r] = Line(data[r])]
                    /\ handles' = handles \cup {r}
                    /\ pc' = [pc EXCEPT ![r] = "flushing"]
                    /\ UNCHANGED resp
    /\ UNCHANGED <<serving, storeOK, store, body, data, health, ackedBefore,
                   okAtStart, envEvents>>

\* mutant of AppendBytes: the file opened with mode 'w', its content replaced
OverwriteBytes(s, chunk) == chunk

\* mutant of AppendBytes: the file opened without O_APPEND, written from offset 0
PrependBytes(s, chunk) == chunk \o s

\* O_APPEND: write(2) puts its bytes at the end of the file
AppendBytes(s, chunk) == s \o chunk

\* leaving the with block: f.close() flushes f's buffer with write(2) calls
\* until nothing is left, then closes the descriptor. write(2) takes the
\* first n bytes. n may be short: the call was interrupted, or the medium
\* had room for n bytes only (full) and rejects what follows.
RawWrite(r, n, full) ==
    /\ pc[r] = "flushing"
    /\ storeOK
    /\ n \in 1..Len(buf[r])
    /\ IF n < Len(buf[r])
       THEN /\ envEvents < MaxEnvEvents
            /\ envEvents' = envEvents + 1
            /\ storeOK' = ~full
       ELSE /\ ~full
            /\ UNCHANGED <<envEvents, storeOK>>
    /\ store' = AppendBytes(store, Tagged(r, SubSeq(buf[r], 1, n)))
    /\ buf' = [buf EXCEPT ![r] = SubSeq(@, n + 1, Len(@))]
    /\ IF n = Len(buf[r])
       THEN /\ handles' = handles \ {r}
            /\ pc' = [pc EXCEPT ![r] = "closed"]
       ELSE UNCHANGED <<handles, pc>>
    /\ UNCHANGED <<serving, body, data, resp, health, attempts,
                   ackedBefore, okAtStart>>

\* one write(2) call of the flush
Flush(r) == \E n \in 1..Len(buf[r]), full \in BOOLEAN : RawWrite(r, n, full)

\* mutant of WriteError: open() and f.close() without a with statement, the
\* close skipped when the flush raises
WriteErrorLeaks(r) ==
    /\ pc[r] = "flushing"
    /\ ~storeOK
    /\ buf' = [buf EXCEPT ![r] = <<>>]
    /\ Except(r, OSError)
    /\ UNCHANGED <<serving, storeOK, store, body, data, handles, health,
                   attempts, ackedBefore, okAtStart, envEvents>>

\* write(2) fails: close() raises OSError after closing the descriptor
WriteError(r) ==
    /\ pc[r] = "flushing"
    /\ ~storeOK
    /\ handles' = handles \ {r}
    /\ buf' = [buf EXCEPT ![r] = <<>>]
    /\ Except(r, OSError)
    /\ UNCHANGED <<serving, storeOK, store, body, data, health, attempts, ackedBefore, okAtStart, envEvents>>

\* mutant of WithExited: the return statement placed inside the with block
WithEntered(r) == pc[r] \in {"flushing", "closed"}

\* the with block is left without an exception
WithExited(r) == pc[r] = "closed"

\* return jsonify({"status": "ok", ...}), 200
ReturnOk(r) ==
    /\ WithExited(r)
    /\ resp' = [resp EXCEPT ![r] = OkResponse]
    /\ pc' = [pc EXCEPT ![r] = "done"]
    /\ UNCHANGED <<serving, storeOK, store, body, data, buf, handles, health,
                   attempts, ackedBefore, okAtStart, envEvents>>

\* mutant of Health: a health check that creates the log anew (mode 'w')
HealthRewritesStore ==
    /\ serving
    /\ health' = HealthResponse
    /\ store' = <<>>
    /\ UNCHANGED <<serving, storeOK, okAtStart, envEvents>>
    /\ UNCHANGED reqVars

\* mutant of Health: a health check that probes the log's medium
HealthProbesStore ==
    /\ serving
    /\ health' = IF storeOK THEN HealthResponse
                 ELSE Response(503, {<<"status", "unhealthy">>})
    /\ UNCHANGED <<serving, storeOK, store, okAtStart, envEvents>>
    /\ UNCHANGED reqVars

\* def health(): return jsonify({"status": "healthy"}), 200
Health ==
    /\ serving
    /\ health' = HealthResponse
    /\ UNCHANGED <<serving, storeOK, store, okAtStart, envEvents>>
    /\ UNCHANGED reqVars

\* the environment: the medium fills up, is unmounted, loses its permissions
MediumFails ==
    /\ storeOK
    /\ envEvents < MaxEnvEvents
    /\ storeOK' = FALSE
    /\ envEvents' = envEvents + 1
    /\ UNCHANGED <<serving, store, health, okAtStart>>
    /\ UNCHANGED reqVars

\* the environment: the medium is available again
MediumRecovers ==
    /\ ~storeOK
    /\ envEvents < MaxEnvEvents
    /\ storeOK' = TRUE
    /\ envEvents' = envEvents + 1
    /\ UNCHANGED <<serving, store, health, okAtStart>>
    /\ UNCHANGED reqVars

Next ==
    \/ Start
    \/ \E r \in Req, b \in Bodies : ReceiveUsage(r, b)
    \/ \E r \in Req : ParseRequest(r)
    \/ \E r \in Req : OpenAndWrite(r)
    \/ \E r \in Req : Flush(r)
    \/ \E r \in Req : WriteError(r)
    \/ \E r \in Req : ReturnOk(r)
    \/ Health
    \/ MediumFails
    \/ MediumRecovers

Spec == Init /\ [][Next]_vars

\* the threaded server runs every handler thread it has started: a handler
\* that can take its next step takes it eventually. Nothing makes requests
\* arrive, health checks be sent or the medium change.
Fairness ==
    \A r \in Req :
        /\ WF_vars(ParseRequest(r))
        /\ WF_vars(OpenAndWrite(r))
        /\ WF_vars(Flush(r) \/ WriteError(r))
        /\ WF_vars(ReturnOk(r))

FairSpec == Spec /\ Fairness

(***************************************************************************)
(* Vocabulary of the properties                                            *)
(***************************************************************************)
\* the places of the file that request r wrote
Positions(r) == {k \in 1..Len(store) : store[k].rid = r}
\* what request r has written to the file, in order
Written(r) == Text(SelectSeq(store, LAMBDA e : e.rid = r))
Done(r) == pc[r] = "done"
Acked(r) == resp[r].code = 200
\* the values of a field of a response body
Field(rsp, name) == {p[2] : p \in {q \in rsp.body : q[1] = name}}
\* a text that is one line: it ends with its only line terminator
IsOneLine(toks) ==
    /\ Len(toks) >= 2
    /\ \A k \in 1..Len(toks) : (toks[k] = NL) <=> (k = Len(toks))
\* the lines the file holds: its line terminators
NumLines(s) == Cardinality({k \in 1..Len(s) : s[k].tok = NL})
Quiescent == \A r \in Req : pc[r] \in {"idle", "done"}

(***************************************************************************)
(* C1: a usage request whose body is a valid JSON payload P returns 200    *)
(* with status "ok", the request has appended exactly one line, the parsed *)
(* content of that line equals P, and what the store held before is        *)
(* unchanged; a request whose append the medium refused is the case of C3. *)
(* The code does not satisfy it: the payload "\ud800" is valid JSON and is  *)
(* answered 500 (UnicodeEncodeError), with no line appended.               *)
(***************************************************************************)
C1_ValidPayloadIsStored ==
    \A r \in Req :
        ( /\ Done(r)
          /\ IsValidJSON(body[r])
          /\ Field(resp[r], "message") # {OSError} ) =>
            /\ resp[r].code = 200
            /\ Field(resp[r], "status") = {"ok"}
            /\ IsOneLine(Written(r))
            /\ IsValidJSON(SubSeq(Written(r), 1, Len(Written(r)) - 1))
            /\ Denotes(SubSeq(Written(r), 1, Len(Written(r)) - 1)) = Denotes(body[r])
            /\ SubSeq(store, 1, Len(PriorStore)) = PriorStore

(***************************************************************************)
(* C2: a usage request whose body is not valid JSON returns 400 with a     *)
(* structured error body, attempts no append and leaves the store as it    *)
(* was. The code does not satisfy it: BadRequest is caught by the          *)
(* handler's except clause and answered 500, and Infinity is read as JSON. *)
(***************************************************************************)
C2_MalformedIsRejected ==
    \A r \in Req :
        (Done(r) /\ ~IsValidJSON(body[r])) =>
            /\ resp[r].code = 400
            /\ Field(resp[r], "status") = {"error"}
            /\ Field(resp[r], "message") # {}
            /\ attempts[r] = 0
            /\ Written(r) = <<>>

(***************************************************************************)
(* C3: a usage request whose append failed (open, write or flush/close)    *)
(* returns 500 with an error body and has left nothing in the store, not   *)
(* even a part of its line. The code does not satisfy it: what a short     *)
(* write(2) stored before the failure stays in the file.                   *)
(***************************************************************************)
C3_FailedAppendLeavesNothing ==
    \A r \in Req :
        (Done(r) /\ attempts[r] > 0 /\ ~Acked(r)) =>
            /\ resp[r].code = 500
            /\ Field(resp[r], "status") = {"error"}
            /\ Written(r) = <<>>

C5_NoAckBeforeDurable ==
    \A r \in Req :
        Acked(r) =>
            /\ Written(r) = Line(Loads(body[r]).val)
            /\ buf[r] = <<>>
            /\ r \notin handles

C5_Witness ==
    \E r \in Req : Acked(r) /\ Len(Written(r)) > 2

(***************************************************************************)
(* C6: a request makes exactly one append attempt when its payload is      *)
(* valid JSON and none when it is malformed, and never writes more than    *)
(* one record. The code does not satisfy the first part: the inputs of C1  *)
(* and C2 make no attempt, or one, where one, or none, is claimed.         *)
(***************************************************************************)
C6_OneAppendAttempt ==
    \A r \in Req :
        Done(r) =>
            /\ attempts[r] = (IF IsValidJSON(body[r]) THEN 1 ELSE 0)
            /\ NumLines(SelectSeq(store, LAMBDA e : e.rid = r)) <= 1

(***************************************************************************)
(* C7: once the process serves, GET /health can be answered in every       *)
(* state, and its answer is 200 {"status": "healthy"} whatever the usage   *)
(* requests did or are doing.                                              *)
(***************************************************************************)
C7_HealthAlwaysHealthy ==
    /\ serving => ENABLED Health
    /\ health # NoResp =>
        /\ health.code = 200
        /\ health.body = {<<"status", "healthy">>}

C7_Witness ==
    /\ health # NoResp
    /\ ~storeOK
    /\ \E r \in Req : Done(r) /\ resp[r].code = 500
    /\ \E r \in Req : pc[r] = "flushing"

C9_ResponseShape ==
    \A r \in Req :
        resp[r] # NoResp =>
            /\ \E st \in {"ok", "error"} : Field(resp[r], "status") = {st}
            /\ Field(resp[r], "status") = {"error"} => Field(resp[r], "message") # {}
            /\ (resp[r].code = 200) <=> (Field(resp[r], "status") = {"ok"})

C9_Witness ==
    /\ \E r \in Req : resp[r].code = 200 /\ Field(resp[r], "message") = {OkMsg}
    /\ \E r \in Req : resp[r].code = 500 /\ Field(resp[r], "message") # {}

(***************************************************************************)
(* C10: a process whose store could not be opened when it started does not *)
(* serve: whenever the process serves, its store was opened successfully   *)
(* at startup. The code does not satisfy it: app.run starts the server     *)
(* without touching the store.                                             *)
(***************************************************************************)
C10_NoServingWithoutStore == serving => okAtStart

(***************************************************************************)
(* C11: appends are mutually exclusive: at most one request is between     *)
(* opening the store and the end of its flush, so the bytes of two records *)
(* are never interleaved: what a request wrote is one unbroken stretch of  *)
(* the store. The code does not satisfy it: the with block takes no lock,  *)
(* two handler threads hold the file open together.                        *)
(***************************************************************************)
\* the places request r wrote are consecutive
Unbroken(r) ==
    \A i \in Positions(r), j \in Positions(r) :
        \A k \in i..j : k \in Positions(r)

C11_AppendsMutuallyExclusive ==
    /\ Cardinality(handles) <= 1
    /\ \A r \in Req : Unbroken(r)

(***************************************************************************)
(* C12: the store is append-only: every step of the program, whatever the  *)
(* requests do (succeed, fail, run together), leaves the store's content   *)
(* as a prefix of the new content; nothing written is changed, removed or  *)
(* moved.                                                                  *)
(***************************************************************************)
IsPrefix(s, t) == Len(s) <= Len(t) /\ SubSeq(t, 1, Len(s)) = s

C12_AppendOnly == [][IsPrefix(store, store')]_vars

C12_Witness ==
    /\ \E r \in Req : Acked(r)
    /\ \E r \in Req : Done(r) /\ ~Acked(r) /\ attempts[r] > 0
    /\ Len(store) > Len(PriorStore) + 2

(***************************************************************************)
(* C13: every step takes a usage request along one of the paths            *)
(*   Received -> Validated -> Appended -> Acknowledged (200),              *)
(*   Received -> Rejected (validation failure, client error),              *)
(*   Received -> Validated -> Failed (append failure, server error),       *)
(* and along no other: no request is Acknowledged that was not Appended,   *)
(* none is Appended that was not Validated. The code does not satisfy it:  *)
(* a request that fails validation ends with a server error (500), the     *)
(* end of the Failed path, straight from Received.                         *)
(***************************************************************************)
\* the state of the request, from where its handler stands and what it
\* answered
Phase(p, rsp) ==
    IF p = "idle" THEN "Idle"
    ELSE IF p = "received" THEN "Received"
    ELSE IF p \in {"parsed", "flushing"} THEN "Validated"
    ELSE IF p = "closed" THEN "Appended"
    ELSE IF rsp.code = 200 THEN "Acknowledged"
    ELSE IF rsp.code \in 400..499 THEN "Rejected"
    ELSE "Failed"

PathSteps ==
    { <<"Idle", "Received">>,
      <<"Received", "Validated">>, <<"Received", "Rejected">>,
      <<"Validated", "Validated">>, <<"Validated", "Appended">>,
      <<"Validated", "Failed">>,
      <<"Appended", "Acknowledged">> }

C13_RequestPaths ==
    [][\A r \in Req :
        \/ <<pc[r], resp[r]>> = <<pc'[r], resp'[r]>>
        \/ <<Phase(pc[r], resp[r]), Phase(pc'[r], resp'[r])>> \in PathSteps]_vars

(***************************************************************************)
(* C14: every usage request the server has received is eventually answered *)
(* (200 or an error), with any number of requests running together, when   *)
(* every handler thread that can step does step; an error of one request   *)
(* does not stop the process, so a valid request that comes after a failed *)
(* one is answered 200 with its record appended unless the store could not *)
(* be written. The code satisfies the first two parts and not the last:    *)
(* the valid payload "\ud800" is answered 500 with the store writable.     *)
(***************************************************************************)
\* termination, under FairSpec
C14_EventuallyCompletes ==
    \A r \in Req : (pc[r] = "received") ~> Done(r)

\* the process is still there for every request that was received
C14_ProcessSurvives ==
    /\ (\E r \in Req : pc[r] # "idle") => serving
    /\ \A r \in Req : (serving /\ pc[r] = "idle"
                        /\ \A q \in Req : q < r => pc[q] # "idle")
                            => ENABLED ReceiveUsage(r, <<"1">>)

C14_ErrorsDoNotStopLaterRequests ==
    /\ C14_ProcessSurvives
    /\ \A r \in Req :
        ( /\ Done(r)
          /\ IsValidJSON(body[r])
          /\ \E q \in Req : q < r /\ Done(q) /\ ~Acked(q) ) =>
            \/ Acked(r) /\ IsOneLine(Written(r))
            \/ Field(resp[r], "message") = {OSError}

(***************************************************************************)
(* C15: the store is opened once, when the process starts, and that one    *)
(* handle serves every append: no request opens the store itself, and no   *)
(* request holds a handle of its own. The code does not satisfy it: every  *)
(* request calls open() in its with statement and closes the file at the   *)
(* end of it; nothing is opened at startup.                                *)
(***************************************************************************)
C15_NoRequestOpensStore ==
    \A r \in Req : attempts[r] = 0 /\ r \notin handles

(***************************************************************************)
(* C16: a step that answers a health request leaves the store, its medium  *)
(* and the state of every usage request (position, payload, buffer, handle,*)
(* response) as they were, so health requests put anywhere into a run      *)
(* change neither the final store nor the usage responses.                 *)
(***************************************************************************)
C16_HealthLeavesStoreAndRequests ==
    [][(Health \/ health' # health) =>
            UNCHANGED <<serving, storeOK, store, pc, body, data, buf, handles,
                        resp, attempts>>]_vars

C16_Witness ==
    /\ health = HealthResponse
    /\ \E r \in Req : pc[r] = "flushing" /\ Written(r) # <<>>
    /\ \E r \in Req : Acked(r)

(***************************************************************************)
(* C17: a request's handle on the store is released on every way out of    *)
(* the with block, success and write failure alike: only requests inside   *)
(* the block hold a handle, so the open handles are never more than the    *)
(* requests inside it, and none is open when no request is in flight.      *)
(***************************************************************************)
C17_HandlesReleased ==
    /\ handles \subseteq {r \in Req : pc[r] = "flushing"}
    /\ Cardinality(handles) <= Cardinality({r \in Req : pc[r] = "flushing"})
    /\ Quiescent => handles = {}

C17_Witness ==
    /\ Quiescent
    /\ handles = {}
    /\ \E r \in Req : Acked(r)
    /\ \E r \in Req : Done(r) /\ Field(resp[r], "message") = {OSError}
                        /\ Written(r) # <<>>

====
